---------------------------- MODULE Spec2Model ----------------------------
(***************************************************************************)
(* Layered boolean circuits (phantom-zone): a Bristol gate list is turned  *)
(* by LayeredCircuit::from_bristol into a sequence of layers with prune    *)
(* lists (separate_layers) and evaluated layer by layer by                 *)
(* LayeredCircuit::eval.  Line numbers refer to                            *)
(* src/frontend/src/layered_circuit.rs unless the root copy                *)
(* src/src/layered_circuit.rs is named.                                    *)
(***************************************************************************)
EXTENDS Integers, Sequences, FiniteSets, TLC

(***************************************************************************)
(* Bounds of the model.                                                    *)
(***************************************************************************)
MaxGates == 2
MaxWire == 4

WireIds == 0 .. (MaxWire - 1)

(***************************************************************************)
(* Sequence helpers.                                                       *)
(***************************************************************************)
Range(s) == { s[i] : i \in 1 .. Len(s) }

RECURSIVE Flatten(_)
Flatten(ss) ==
    IF ss = << >> THEN << >> ELSE Head(ss) \o Flatten(Tail(ss))

RECURSIVE SumLens(_)
SumLens(ss) ==
    IF ss = << >> THEN 0 ELSE Len(Head(ss)) + SumLens(Tail(ss))

Count(s, x) == Cardinality({ i \in 1 .. Len(s) : s[i] = x })

(***************************************************************************)
(* Gate model.                                                             *)
(***************************************************************************)
UnaryGate(op, in_, out) ==
    [kind |-> "Unary", op |-> op, in_ |-> in_, out |-> out]

BinaryGate(op, a, b, out) ==
    [kind |-> "Binary", op |-> op, a |-> a, b |-> b, out |-> out]

\* Gate::inputs
GateInputs(g) == IF g.kind = "Unary" THEN << g.in_ >> ELSE << g.a, g.b >>

\* Gate::out
GateOut(g) == g.out


(***************************************************************************)
(* separate_layers.                                                        *)
(***************************************************************************)
\* faulty variant: every gate waits for one operand only
InitialDeps_AllOne(gates) == [ i \in 1 .. Len(gates) |-> 1 ]

\* gate_deps_remaining as first built: 1 for a unary gate, 2 for a binary one
InitialDeps(gates) ==
    [ i \in 1 .. Len(gates) |-> IF gates[i].kind = "Unary" THEN 1 ELSE 2 ]

\* input_wire_to_gates[w]: the gate indices pushed for wire w, in push order
\* (gate by gate, operand by operand, so a gate with a = b = w occurs twice)
InputWireToGates(gates, w) ==
    LET occ(i) == [ k \in 1 .. Count(GateInputs(gates[i]), w) |-> i ]
    IN  Flatten([ i \in 1 .. Len(gates) |-> occ(i) ])

\* faulty variant: the test against output_wire_set is left out
RECURSIVE PrunesOfGate_NoOutputTest(_, _, _, _)
PrunesOfGate_NoOutputTest(gates, ins, included, outSet) ==
    IF ins = << >> THEN << >>
    ELSE LET w == Head(ins)
             readers == InputWireToGates(gates, w)
             still_needed == \E k \in 1 .. Len(readers) : ~included[readers[k]]
             rest == PrunesOfGate_NoOutputTest(gates, Tail(ins), included, outSet)
         IN  IF still_needed THEN rest ELSE << w >> \o rest

\* faulty variant: an operand is pruned by the first gate that reads it
RECURSIVE PrunesOfGate_FirstReader(_, _, _, _)
PrunesOfGate_FirstReader(gates, ins, included, outSet) ==
    IF ins = << >> THEN << >>
    ELSE LET w == Head(ins)
             rest == PrunesOfGate_FirstReader(gates, Tail(ins), included, outSet)
         IN  IF w \in outSet THEN rest ELSE << w >> \o rest

\* the inner loop over gate.inputs() of a gate that just became ready:
\* the operands pushed to next_layer.prunes, in order
RECURSIVE PrunesOfGate(_, _, _, _)
PrunesOfGate(gates, ins, included, outSet) ==
    IF ins = << >> THEN << >>
    ELSE LET w == Head(ins)
             readers == InputWireToGates(gates, w)
             still_needed == \E k \in 1 .. Len(readers) : ~included[readers[k]]
             rest == PrunesOfGate(gates, Tail(ins), included, outSet)
         IN  IF w \in outSet THEN rest
             ELSE IF still_needed THEN rest
             ELSE << w >> \o rest

\* faulty variant: the gate is pushed to next_layer.gates inside the loop over
\* its operands, once per operand
VisitGate_PushPerOperand(gates, outSet, st, gate_i) ==
    LET deps == [ st.deps EXCEPT ![gate_i] = @ - 1 ]
    IN  IF deps[gate_i] = 0
        THEN LET gate == gates[gate_i]
                 included == [ st.included EXCEPT ![gate_i] = TRUE ]
             IN  [ deps |-> deps,
                   included |-> included,
                   next |-> Append(st.next, GateOut(gate)),
                   prunes |-> st.prunes \o PrunesOfGate(gates, GateInputs(gate), included, outSet),
                   gates |-> st.gates \o [ k \in 1 .. Len(GateInputs(gate)) |-> gate ] ]
        ELSE [ st EXCEPT !.deps = deps ]

\* one pass of `for &gate_i in gates_affected`: st carries gate_deps_remaining,
\* gates_included, next_layer and next_wires_resolved
VisitGate(gates, outSet, st, gate_i) ==
    LET deps == [ st.deps EXCEPT ![gate_i] = @ - 1 ]
    IN  IF deps[gate_i] = 0
        THEN LET gate == gates[gate_i]
                 included == [ st.included EXCEPT ![gate_i] = TRUE ]
             IN  [ deps |-> deps,
                   included |-> included,
                   next |-> Append(st.next, GateOut(gate)),
                   prunes |-> st.prunes \o PrunesOfGate(gates, GateInputs(gate), included, outSet),
                   gates |-> Append(st.gates, gate) ]
        ELSE [ st EXCEPT !.deps = deps ]

RECURSIVE VisitGates(_, _, _, _)
VisitGates(gates, outSet, st, affected) ==
    IF affected = << >> THEN st
    ELSE VisitGates(gates, outSet, VisitGate(gates, outSet, st, Head(affected)), Tail(affected))

\* faulty variant: the output wire of a gate that became ready is pushed to
\* wires_resolved, the list being walked, not to next_wires_resolved alone
RECURSIVE VisitWires_SameLayer(_, _, _, _)
VisitWires_SameLayer(gates, outSet, st, wires) ==
    IF wires = << >> THEN st
    ELSE LET st2 == VisitGates(gates, outSet, st, InputWireToGates(gates, Head(wires)))
         IN  VisitWires_SameLayer(gates, outSet, st2,
                                  Tail(wires) \o SubSeq(st2.next, Len(st.next) + 1, Len(st2.next)))

\* `for wire in wires_resolved`: a wire without an entry in input_wire_to_gates
\* has the empty reader list here
RECURSIVE VisitWires(_, _, _, _)
VisitWires(gates, outSet, st, wires) ==
    IF wires = << >> THEN st
    ELSE VisitWires(gates, outSet,
                    VisitGates(gates, outSet, st, InputWireToGates(gates, Head(wires))),
                    Tail(wires))

\* faulty variant: an iteration walks the first resolved wire only and leaves
\* the others to the next iteration
LayerStep_OneWirePerPass(gates, outSet, deps, included, wires_resolved) ==
    LET st == VisitWires(gates, outSet,
                         [ deps |-> deps, included |-> included, next |-> << >>,
                           prunes |-> << >>, gates |-> << >> ],
                         SubSeq(wires_resolved, 1, 1))
    IN  [ st EXCEPT !.next = SubSeq(wires_resolved, 2, Len(wires_resolved)) \o st.next ]

\* one iteration of the scheduling loop up to the decision to go on
LayerStep(gates, outSet, deps, included, wires_resolved) ==
    VisitWires(gates, outSet,
               [ deps |-> deps, included |-> included, next |-> << >>,
                 prunes |-> << >>, gates |-> << >> ],
               wires_resolved)

\* the loop of the frontend copy: `loop { ... if next_layer.gates.len() == 0 { break } ... }`
RECURSIVE FrontendLoop(_, _, _, _, _, _, _)
FrontendLoop(gates, outSet, deps, included, wires_resolved, layers, iters) ==
    LET st == LayerStep(gates, outSet, deps, included, wires_resolved)
    IN  IF Len(st.gates) = 0
        THEN [ layers |-> layers, included |-> st.included, iters |-> iters + 1 ]
        ELSE FrontendLoop(gates, outSet, st.deps, st.included, st.next,
                          Append(layers, [ gates |-> st.gates, prunes |-> st.prunes ]),
                          iters + 1)

\* the loop of the root copy: `while wires_resolved.len() > 0 { ... layers.push(next_layer) ... }`
RECURSIVE RootLoop(_, _, _, _, _, _, _)
RootLoop(gates, outSet, deps, included, wires_resolved, layers, iters) ==
    IF Len(wires_resolved) = 0
    THEN [ layers |-> layers, included |-> included, iters |-> iters ]
    ELSE LET st == LayerStep(gates, outSet, deps, included, wires_resolved)
         IN  RootLoop(gates, outSet, st.deps, st.included, st.next,
                      Append(layers, [ gates |-> st.gates, prunes |-> st.prunes ]),
                      iters + 1)

PruneCount(layers) == SumLens([ k \in 1 .. Len(layers) |-> layers[k].prunes ])

\* faulty variant: the assertion that every gate is included is left out
PostChecks_NoInclusionTest(loop, gates, wire_count, output_wires) ==
    IF wire_count < Len(output_wires)
    THEN [ ok |-> FALSE, err |-> "subtract with overflow", layers |-> << >>, iters |-> loop.iters ]
    ELSE IF PruneCount(loop.layers) # wire_count - Len(output_wires)
    THEN [ ok |-> FALSE, err |-> "All non-output wires should have been pruned",
           layers |-> << >>, iters |-> loop.iters ]
    ELSE [ ok |-> TRUE, err |-> "", layers |-> loop.layers, iters |-> loop.iters ]

\* the two assertions after the loop; `wire_count - output_wires.len()` is a
\* usize subtraction
PostChecks(loop, gates, wire_count, output_wires) ==
    IF \E i \in 1 .. Len(gates) : ~loop.included[i]
    THEN [ ok |-> FALSE, err |-> "Not all gates included", layers |-> << >>, iters |-> loop.iters ]
    ELSE IF wire_count < Len(output_wires)
    THEN [ ok |-> FALSE, err |-> "subtract with overflow", layers |-> << >>, iters |-> loop.iters ]
    ELSE IF PruneCount(loop.layers) # wire_count - Len(output_wires)
    THEN [ ok |-> FALSE, err |-> "All non-output wires should have been pruned",
           layers |-> << >>, iters |-> loop.iters ]
    ELSE [ ok |-> TRUE, err |-> "", layers |-> loop.layers, iters |-> loop.iters ]

separate_layers(gates, wire_count, input_wires, output_wires) ==
    PostChecks(FrontendLoop(gates, Range(output_wires), InitialDeps(gates),
                            [ i \in 1 .. Len(gates) |-> FALSE ], input_wires, << >>, 0),
               gates, wire_count, output_wires)

separate_layers_root(gates, wire_count, input_wires, output_wires) ==
    PostChecks(RootLoop(gates, Range(output_wires), InitialDeps(gates),
                        [ i \in 1 .. Len(gates) |-> FALSE ], input_wires, << >>, 0),
               gates, wire_count, output_wires)

(***************************************************************************)
(* ingest_bristol_gates, io_labels, io_wires, from_bristol.                *)
(***************************************************************************)
\* a gate record of the Bristol circuit: operator name and index lists
BristolGate(op, inputs, outputs) == [ op |-> op, inputs |-> inputs, outputs |-> outputs ]

\* faulty variant: an operator that is not known is taken for a COPY
IngestGate_UnknownAsCopy(gate) ==
    IF Len(gate.inputs) < (IF gate.op \in {"XOR", "AND", "OR"} THEN 2 ELSE 1) \/ Len(gate.outputs) < 1
    THEN [ ok |-> FALSE, err |-> "index out of bounds" ]
    ELSE [ ok |-> TRUE,
           gate |-> CASE gate.op = "XOR" -> BinaryGate("Xor", gate.inputs[1], gate.inputs[2], gate.outputs[1])
                      [] gate.op = "AND" -> BinaryGate("And", gate.inputs[1], gate.inputs[2], gate.outputs[1])
                      [] gate.op = "OR" -> BinaryGate("Or", gate.inputs[1], gate.inputs[2], gate.outputs[1])
                      [] gate.op = "NOT" -> UnaryGate("Not", gate.inputs[1], gate.outputs[1])
                      [] OTHER -> UnaryGate("Copy", gate.inputs[1], gate.outputs[1]) ]

\* one arm of the match; inputs[0], inputs[1] and outputs[0] are bounds-checked
\* index operations
IngestGate(gate) ==
    LET arity == IF gate.op \in {"XOR", "AND", "OR"} THEN 2
                 ELSE IF gate.op \in {"NOT", "COPY"} THEN 1 ELSE 0
    IN  IF arity = 0
        THEN [ ok |-> FALSE, err |-> "Unsupported gate operation" ]
        ELSE IF Len(gate.inputs) < arity \/ Len(gate.outputs) < 1
        THEN [ ok |-> FALSE, err |-> "index out of bounds" ]
        ELSE [ ok |-> TRUE,
               gate |-> CASE gate.op = "XOR" -> BinaryGate("Xor", gate.inputs[1], gate.inputs[2], gate.outputs[1])
                          [] gate.op = "AND" -> BinaryGate("And", gate.inputs[1], gate.inputs[2], gate.outputs[1])
                          [] gate.op = "OR" -> BinaryGate("Or", gate.inputs[1], gate.inputs[2], gate.outputs[1])
                          [] gate.op = "NOT" -> UnaryGate("Not", gate.inputs[1], gate.outputs[1])
                          [] gate.op = "COPY" -> UnaryGate("Copy", gate.inputs[1], gate.outputs[1]) ]

ingest_bristol_gates(gates) ==
    LET r == [ i \in 1 .. Len(gates) |-> IngestGate(gates[i]) ]
        bad == { i \in 1 .. Len(gates) : ~r[i].ok }
    IN  IF bad # {}
        THEN [ ok |-> FALSE, err |-> r[CHOOSE i \in bad : \A j \in bad : i <= j].err, gates |-> << >> ]
        ELSE [ ok |-> TRUE, err |-> "", gates |-> [ i \in 1 .. Len(gates) |-> r[i].gate ] ]

\* sort_by_key(|(_, index)| *index): a stable sort, here by insertion
RECURSIVE InsertByIndex(_, _)
InsertByIndex(sorted, e) ==
    IF sorted = << >> THEN << e >>
    ELSE IF sorted[Len(sorted)][2] <= e[2] THEN Append(sorted, e)
    ELSE Append(InsertByIndex(SubSeq(sorted, 1, Len(sorted) - 1), e), sorted[Len(sorted)])

RECURSIVE SortByIndex(_)
SortByIndex(entries) ==
    IF entries = << >> THEN << >>
    ELSE InsertByIndex(SortByIndex(SubSeq(entries, 1, Len(entries) - 1)), entries[Len(entries)])

CircuitLabel(name, start, bits) == [ name |-> name, start |-> start, bits |-> bits ]

\* faulty variant: the entries are zipped with the widths as iterated, unsorted
io_labels_Unsorted(entries, widths) ==
    IF Len(entries) # Len(widths)
    THEN [ ok |-> FALSE, err |-> "Mismatch between input count and input widths", labels |-> << >> ]
    ELSE [ ok |-> TRUE, err |-> "",
           labels |-> [ i \in 1 .. Len(entries) |->
                          CircuitLabel(entries[i][1], entries[i][2], widths[i]) ] ]

\* `entries` is name_to_index in the order the hash map iterates it
io_labels(entries, widths) ==
    LET ordered == SortByIndex(entries)
    IN  IF Len(ordered) # Len(widths)
        THEN [ ok |-> FALSE, err |-> "Mismatch between input count and input widths", labels |-> << >> ]
        ELSE [ ok |-> TRUE, err |-> "",
               labels |-> [ i \in 1 .. Len(ordered) |->
                              CircuitLabel(ordered[i][1], ordered[i][2], widths[i]) ] ]

io_wires(labels) ==
    Flatten([ i \in 1 .. Len(labels) |->
                [ k \in 1 .. labels[i].bits |-> labels[i].start + k - 1 ] ])

\* the orders in which a hash map with these entries can be iterated
Iterations(name_to_index) ==
    LET names == DOMAIN name_to_index
        n == Cardinality(names)
    IN  { [ i \in 1 .. n |-> << f[i], name_to_index[f[i]] >> ] :
            f \in { g \in [ 1 .. n -> names ] : \A i, j \in 1 .. n : i # j => g[i] # g[j] } }

NoCircuit == [ wire_count |-> 0, inputs |-> << >>, outputs |-> << >>, layers |-> << >> ]

Abort(err) == [ ok |-> FALSE, err |-> err, lc |-> NoCircuit, iters |-> 0 ]

\* in_entries and out_entries are the two name maps as iterated
from_bristol(bristol_circuit, in_entries, out_entries) ==
    IF bristol_circuit.constants # << >>
    THEN Abort("Bristol constants are not supported")
    ELSE
    LET inputs == io_labels(in_entries, bristol_circuit.io_widths[1])
        outputs == io_labels(out_entries, bristol_circuit.io_widths[2])
        gates == ingest_bristol_gates(bristol_circuit.gates)
        sched == separate_layers(gates.gates, bristol_circuit.wire_count,
                                 io_wires(inputs.labels), io_wires(outputs.labels))
    IN  IF ~inputs.ok THEN Abort(inputs.err)
        ELSE IF ~outputs.ok THEN Abort(outputs.err)
        ELSE IF ~gates.ok THEN Abort(gates.err)
        ELSE IF ~sched.ok THEN [ Abort(sched.err) EXCEPT !.iters = sched.iters ]
        ELSE [ ok |-> TRUE, err |-> "", iters |-> sched.iters,
               lc |-> [ wire_count |-> bristol_circuit.wire_count,
                        inputs |-> inputs.labels,
                        outputs |-> outputs.labels,
                        layers |-> sched.layers ] ]

\* from_bristol of the root copy (src/src/layered_circuit.rs), which differs in
\* the loop of its separate_layers
from_bristol_root(bristol_circuit, in_entries, out_entries) ==
    IF bristol_circuit.constants # << >>
    THEN Abort("Bristol constants are not supported")
    ELSE
    LET inputs == io_labels(in_entries, bristol_circuit.io_widths[1])
        outputs == io_labels(out_entries, bristol_circuit.io_widths[2])
        gates == ingest_bristol_gates(bristol_circuit.gates)
        sched == separate_layers_root(gates.gates, bristol_circuit.wire_count,
                                      io_wires(inputs.labels), io_wires(outputs.labels))
    IN  IF ~inputs.ok THEN Abort(inputs.err)
        ELSE IF ~outputs.ok THEN Abort(outputs.err)
        ELSE IF ~gates.ok THEN Abort(gates.err)
        ELSE IF ~sched.ok THEN [ Abort(sched.err) EXCEPT !.iters = sched.iters ]
        ELSE [ ok |-> TRUE, err |-> "", iters |-> sched.iters,
               lc |-> [ wire_count |-> bristol_circuit.wire_count,
                        inputs |-> inputs.labels,
                        outputs |-> outputs.labels,
                        layers |-> sched.layers ] ]

(***************************************************************************)
(* LayeredCircuit::eval over plaintext booleans.                           *)
(***************************************************************************)
\* the panic payloads of eval; `name` is the input the message is formatted with
UnwrapNone == [ msg |-> "called Option::unwrap() on a None value", name |-> "" ]

LengthMismatch(name) == [ msg |-> "Input length mismatch for", name |-> name ]

NoError == [ msg |-> "", name |-> "" ]

NoWires == [ w \in {} |-> FALSE ]

Insert(table, wire, val) ==
    [ w \in DOMAIN table \cup {wire} |-> IF w = wire THEN val ELSE table[w] ]

Remove(table, wire) == [ w \in DOMAIN table \ {wire} |-> table[w] ]

\* `for i in 0..input_label.bits { wires.insert(input_label.start + i, input[i].clone()) }`
RECURSIVE SeedLabel(_, _, _, _)
SeedLabel(table, label, input, i) ==
    IF i >= label.bits THEN table
    ELSE SeedLabel(Insert(table, label.start + i, input[i + 1]), label, input, i + 1)

\* faulty variant: only a vector that is too short is refused
RECURSIVE SeedInputs_AcceptLonger(_, _, _, _)
SeedInputs_AcceptLonger(labels, inputs, table, k) ==
    IF k > Len(labels) THEN [ ok |-> TRUE, err |-> NoError, wires |-> table ]
    ELSE LET input_label == labels[k]
         IN  IF input_label.name \notin DOMAIN inputs
             THEN [ ok |-> FALSE, err |-> UnwrapNone, wires |-> table ]
             ELSE IF Len(inputs[input_label.name]) < input_label.bits
             THEN [ ok |-> FALSE, err |-> LengthMismatch(input_label.name), wires |-> table ]
             ELSE SeedInputs_AcceptLonger(labels, inputs,
                             SeedLabel(table, input_label, inputs[input_label.name], 0), k + 1)

\* the validation and seeding loop over self.inputs, from label k on
RECURSIVE SeedInputs(_, _, _, _)
SeedInputs(labels, inputs, table, k) ==
    IF k > Len(labels) THEN [ ok |-> TRUE, err |-> NoError, wires |-> table ]
    ELSE LET input_label == labels[k]
         IN  IF input_label.name \notin DOMAIN inputs
             THEN [ ok |-> FALSE, err |-> UnwrapNone, wires |-> table ]
             ELSE IF Len(inputs[input_label.name]) # input_label.bits
             THEN [ ok |-> FALSE, err |-> LengthMismatch(input_label.name), wires |-> table ]
             ELSE SeedInputs(labels, inputs,
                             SeedLabel(table, input_label, inputs[input_label.name], 0), k + 1)

ApplyUnary(op, in_val) == IF op = "Not" THEN ~in_val ELSE in_val

\* faulty variant: Xor computed as Or
ApplyBinary_XorAsOr(op, a_val, b_val) ==
    CASE op = "And" -> a_val /\ b_val
      [] op = "Or" -> a_val \/ b_val
      [] op = "Xor" -> a_val \/ b_val

ApplyBinary(op, a_val, b_val) ==
    CASE op = "And" -> a_val /\ b_val
      [] op = "Or" -> a_val \/ b_val
      [] op = "Xor" -> a_val # b_val

\* the closure mapped over layer.gates: (out, out_val), or the unwrap of a
\* missing operand
GateAssignment(gate, table) ==
    IF \E k \in 1 .. Len(GateInputs(gate)) : GateInputs(gate)[k] \notin DOMAIN table
    THEN [ ok |-> FALSE ]
    ELSE [ ok |-> TRUE, wire |-> GateOut(gate),
           val |-> IF gate.kind = "Unary" THEN ApplyUnary(gate.op, table[gate.in_])
                   ELSE ApplyBinary(gate.op, table[gate.a], table[gate.b]) ]

\* `for (wire, val) in assignments { wires.insert(wire, val) }`
RECURSIVE MergeAssignments(_, _, _)
MergeAssignments(table, assigned, i) ==
    IF i > Len(assigned) THEN table
    ELSE MergeAssignments(Insert(table, assigned[i].wire, assigned[i].val), assigned, i + 1)

\* `for prune in &layer.prunes { wires.remove(prune) }`
RECURSIVE ApplyPrunes(_, _)
ApplyPrunes(table, prunes) ==
    IF prunes = << >> THEN table
    ELSE ApplyPrunes(Remove(table, Head(prunes)), Tail(prunes))

\* the read-out loop over self.outputs
CollectOutputs(labels, table) ==
    IF \E k \in 1 .. Len(labels) : \E i \in 0 .. labels[k].bits - 1 :
           labels[k].start + i \notin DOMAIN table
    THEN [ ok |-> FALSE, outputs |-> [ n \in {} |-> << >> ] ]
    ELSE [ ok |-> TRUE,
           outputs |-> [ n \in { labels[k].name : k \in 1 .. Len(labels) } |->
                           LET k == CHOOSE j \in 1 .. Len(labels) :
                                        /\ labels[j].name = n
                                        /\ \A j2 \in 1 .. Len(labels) : labels[j2].name = n => j2 <= j
                           IN  [ i \in 1 .. labels[k].bits |-> table[labels[k].start + i - 1] ] ] ]

\* `for layer in &self.layers { ... }` from layer k on, the gates of a layer
\* mapped against the table as it is before the layer
RECURSIVE EvalLayers(_, _, _)
EvalLayers(layers, table, k) ==
    IF k > Len(layers) THEN [ ok |-> TRUE, wires |-> table ]
    ELSE LET assigned == [ g \in 1 .. Len(layers[k].gates) |-> GateAssignment(layers[k].gates[g], table) ]
         IN  IF \E g \in 1 .. Len(assigned) : ~assigned[g].ok
             THEN [ ok |-> FALSE, wires |-> table ]
             ELSE EvalLayers(layers,
                             ApplyPrunes(MergeAssignments(table, assigned, 1), layers[k].prunes),
                             k + 1)

\* one whole call of eval on a circuit
eval(circuit, input_assignment) ==
    LET seeded == SeedInputs(circuit.inputs, input_assignment, NoWires, 1)
        after == EvalLayers(circuit.layers, seeded.wires, 1)
        read == CollectOutputs(circuit.outputs, after.wires)
    IN  IF ~seeded.ok THEN [ ok |-> FALSE, err |-> seeded.err, outputs |-> [ n \in {} |-> << >> ] ]
        ELSE IF ~after.ok \/ ~read.ok
        THEN [ ok |-> FALSE, err |-> UnwrapNone, outputs |-> [ n \in {} |-> << >> ] ]
        ELSE [ ok |-> TRUE, err |-> NoError, outputs |-> read.outputs ]

(***************************************************************************)
(* The Bristol circuits handed to from_bristol.                            *)
(***************************************************************************)
SeqsUpTo(S, n) == UNION { [ 1 .. k -> S ] : k \in 0 .. n }

Map1(name, index) == [ n \in {name} |-> index ]

BristolCircuit(wire_count, gates, in_map, in_widths, out_map, out_widths, constants) ==
    [ wire_count |-> wire_count, gates |-> gates,
      input_name_to_wire_index |-> in_map, output_name_to_wire_index |-> out_map,
      io_widths |-> << in_widths, out_widths >>, constants |-> constants ]

Map2(name1, index1, name2, index2) ==
    [ n \in {name1, name2} |-> IF n = name1 THEN index1 ELSE index2 ]

NameMaps(name1, name2, indices) ==
    { [ n \in {} |-> 0 ] }
    \cup { Map1(n, i) : n \in {name1, name2}, i \in indices }
    \cup { Map2(name1, i, name2, j) : i \in indices, j \in indices }

\* every gate over the wire ids, well formed or not (an operand nothing drives,
\* a cycle, an output wire written twice or equal to a primary input); the
\* operands of a binary gate are listed lower wire first
SchedGates ==
    { BristolGate("NOT", << a >>, << o >>) : a \in WireIds, o \in WireIds }
    \cup UNION { { BristolGate("AND", << a, b >>, << o >>) : b \in a .. (MaxWire - 1), o \in WireIds } :
                   a \in WireIds }

\* one or two gates of any shape: a two-bit input label x at wire 0, a one-bit
\* output label main anywhere
SchedCircuits ==
    { BristolCircuit(wc, gs, Map1("x", 0), << 2 >>, Map1("main", s), << 1 >>, << >>) :
        wc \in { MaxWire - 1, MaxWire }, gs \in SeqsUpTo(SchedGates, 2), s \in WireIds }

\* the k-th gate of a list writes wire k + 1 and reads the wires below it, as
\* a Bristol writer numbers them after the two input wires
OpGates(k) ==
    { BristolGate(op, << a >>, << k + 1 >>) : op \in {"NOT", "COPY"}, a \in 0 .. k }
    \cup { BristolGate(op, << a, b >>, << k + 1 >>) :
             op \in {"AND", "OR", "XOR"}, a \in 0 .. k, b \in 0 .. k }

RECURSIVE OpGateLists(_)
OpGateLists(n) ==
    IF n = 0 THEN { << >> }
    ELSE { Append(gs, g) : gs \in OpGateLists(n - 1), g \in OpGates(n) }

\* every operator, up to MaxGates gates deep: a two-bit input x, a one-bit
\* output main on the last wire of the circuit
OpCircuits ==
    { BristolCircuit(2 + Len(gs), gs, Map1("x", 0), << 2 >>, Map1("main", 1 + Len(gs)), << 1 >>, << >>) :
        gs \in UNION { OpGateLists(n) : n \in 0 .. MaxGates } }

\* labels of any shape over a few short gate lists
LabelGateLists ==
    { << >>,
      << BristolGate("AND", << 0, 1 >>, << 2 >>) >>,
      << BristolGate("NOT", << 0 >>, << 1 >>) >>,
      << BristolGate("NOT", << 0 >>, << 2 >>), BristolGate("AND", << 1, 2 >>, << 3 >>) >> }

LabelCircuits ==
    { BristolCircuit(wc, gs, im, iw, om, ow, << >>) :
        wc \in 1 .. MaxWire, gs \in LabelGateLists,
        im \in NameMaps("x", "y", 0 .. 2), iw \in SeqsUpTo(1 .. 2, 2),
        om \in { Map1("main", 0), Map1("main", 1), Map1("main", 2), Map1("main", 3),
                 Map2("main", 1, "aux", 2), Map2("main", 2, "aux", 0) },
        ow \in SeqsUpTo({1}, 2) }

\* what from_bristol rejects before scheduling: constants, an operator it does
\* not know, a gate record with too few indices
DefectGates ==
    { BristolGate("AND", << 0, 1 >>, << 2 >>),
      BristolGate("NOT", << 2 >>, << 3 >>),
      BristolGate("NAND", << 0, 1 >>, << 2 >>),
      BristolGate("INV", << 2 >>, << 3 >>),
      BristolGate("XOR", << 0 >>, << 2 >>),
      BristolGate("COPY", << 2 >>, << >>) }

DefectCircuits ==
    { BristolCircuit(wc, gs, Map1("x", 0), iw, Map1("main", s), ow, cs) :
        wc \in { MaxWire - 1, MaxWire }, gs \in SeqsUpTo(DefectGates, MaxGates),
        iw \in { << 2 >>, << 1, 1 >> }, s \in { 2, 3 }, ow \in { << 1 >>, << >> },
        cs \in { << >>, << "c" >> } }

(***************************************************************************)
(* State.                                                                  *)
(***************************************************************************)
VARIABLES
    bristol,      \* the BristolCircuit given to from_bristol
    pc,           \* "new", "built" (from_bristol returned) or "aborted" (it panicked)
    lc,           \* the LayeredCircuit returned
    err,          \* the panic message of from_bristol
    iters,        \* iterations the scheduling loop of separate_layers made
    epc,          \* eval: "idle", "layers", "done" or "panicked"
    inputs,       \* eval: the input assignment of the call
    wires,        \* eval: the wire-value table
    layer_i,      \* eval: index of the layer being computed
    assignments,  \* eval: results of the gates of this layer computed so far
    computed,     \* eval: number of gate computations made by the call
    outputs,      \* eval: the returned output assignment
    eerr,         \* eval: the panic payload
    ended         \* how the last eval call on lc ended: "none", "returned" or "panicked"

cvars == << bristol, pc, lc, err, iters >>
evars == << epc, inputs, wires, layer_i, assignments, computed, outputs, eerr, ended >>
vars == << bristol, pc, lc, err, iters, epc, inputs, wires, layer_i, assignments,
           computed, outputs, eerr, ended >>

NoAssignment == [ n \in {} |-> << >> ]

NoGateResults == [ g \in {} |-> [ ok |-> FALSE ] ]

EvalIdle ==
    /\ epc = "idle"
    /\ inputs = NoAssignment
    /\ wires = NoWires
    /\ layer_i = 0
    /\ assignments = NoGateResults
    /\ computed = 0
    /\ outputs = NoAssignment
    /\ eerr = NoError

Init ==
    /\ \/ bristol \in SchedCircuits
       \/ bristol \in OpCircuits
       \/ bristol \in LabelCircuits
       \/ bristol \in DefectCircuits
    /\ pc = "new"
    /\ lc = NoCircuit
    /\ err = ""
    /\ iters = 0
    /\ EvalIdle
    /\ ended = "none"

(***************************************************************************)
(* Actions.                                                                *)
(***************************************************************************)
\* LayeredCircuit::from_bristol; a usize subtraction that underflows panics
\* where overflow checks are compiled in and wraps otherwise, and then the
\* assertion on the prune count fails
FromBristol ==
    /\ pc = "new"
    /\ \E in_entries \in Iterations(bristol.input_name_to_wire_index) :
       \E out_entries \in Iterations(bristol.output_name_to_wire_index) :
       \E r \in { from_bristol(bristol, in_entries, out_entries) } :
          /\ pc' = IF r.ok THEN "built" ELSE "aborted"
          /\ lc' = r.lc
          /\ iters' = r.iters
          /\ IF r.err = "subtract with overflow"
             THEN err' \in { r.err, "All non-output wires should have been pruned" }
             ELSE err' = r.err
    /\ UNCHANGED << bristol, evars >>

\* the input assignments tried: for each declared input no entry, or a vector
\* of the declared width, or one that is a value short or a value long
BoolSeqs(n) == [ 1 .. n -> BOOLEAN ]

DeclaredNames == { lc.inputs[k].name : k \in 1 .. Len(lc.inputs) }

VectorsFor(name) ==
    LET bits == lc.inputs[CHOOSE k \in 1 .. Len(lc.inputs) : lc.inputs[k].name = name].bits
    IN  BoolSeqs(bits)
        \cup { [ i \in 1 .. bits - 1 |-> FALSE ], [ i \in 1 .. bits + 1 |-> TRUE ] }

InputAssignments ==
    UNION { { f \in [ names -> UNION { VectorsFor(n) : n \in names } ] :
                \A n \in names : f[n] \in VectorsFor(n) } :
            names \in SUBSET DeclaredNames }

\* eval up to the first layer: the validation and seeding loop
EvalBegin ==
    /\ pc = "built"
    /\ epc = "idle"
    /\ \E input_assignment \in InputAssignments :
       \E r \in { SeedInputs(lc.inputs, input_assignment, NoWires, 1) } :
          /\ inputs' = input_assignment
          /\ epc' = IF r.ok THEN "layers" ELSE "panicked"
          /\ eerr' = r.err
          /\ wires' = r.wires
          /\ layer_i' = IF r.ok THEN 1 ELSE 0
    /\ UNCHANGED << cvars, assignments, computed, outputs, ended >>

\* faulty variant: a worker inserts its result into the wire table at once
EvalGate_WritesThrough ==
    /\ epc = "layers"
    /\ layer_i <= Len(lc.layers)
    /\ \E g \in (1 .. Len(lc.layers[layer_i].gates)) \ DOMAIN assignments :
       \E r \in { GateAssignment(lc.layers[layer_i].gates[g], wires) } :
          /\ computed' = computed + 1
          /\ IF r.ok
             THEN /\ assignments' = [ h \in DOMAIN assignments \cup {g} |->
                                        IF h = g THEN r ELSE assignments[h] ]
                  /\ wires' = Insert(wires, r.wire, r.val)
                  /\ UNCHANGED << epc, eerr >>
             ELSE /\ epc' = "panicked"
                  /\ eerr' = UnwrapNone
                  /\ UNCHANGED << assignments, wires >>
    /\ UNCHANGED << cvars, inputs, layer_i, outputs, ended >>

\* one gate of the current layer is mapped by a worker; the gates of a layer
\* are mapped in any order
EvalGate ==
    /\ epc = "layers"
    /\ layer_i <= Len(lc.layers)
    /\ \E g \in (1 .. Len(lc.layers[layer_i].gates)) \ DOMAIN assignments :
       \E r \in { GateAssignment(lc.layers[layer_i].gates[g], wires) } :
          /\ computed' = computed + 1
          /\ IF r.ok
             THEN /\ assignments' = [ h \in DOMAIN assignments \cup {g} |->
                                        IF h = g THEN r ELSE assignments[h] ]
                  /\ UNCHANGED << epc, eerr >>
             ELSE /\ epc' = "panicked"
                  /\ eerr' = UnwrapNone
                  /\ UNCHANGED assignments
    /\ UNCHANGED << cvars, inputs, wires, layer_i, outputs, ended >>

\* faulty variant: the prunes of a committed layer are drained from the circuit
EvalCommit_DrainsPrunes ==
    /\ epc = "layers"
    /\ layer_i <= Len(lc.layers)
    /\ DOMAIN assignments = 1 .. Len(lc.layers[layer_i].gates)
    /\ wires' = ApplyPrunes(MergeAssignments(wires, assignments, 1), lc.layers[layer_i].prunes)
    /\ lc' = [ lc EXCEPT !.layers[layer_i].prunes = << >> ]
    /\ layer_i' = layer_i + 1
    /\ assignments' = NoGateResults
    /\ UNCHANGED << bristol, pc, err, iters, epc, inputs, computed, outputs, eerr, ended >>

\* the collected assignments are merged in gate order, then the prunes applied
EvalCommit ==
    /\ epc = "layers"
    /\ layer_i <= Len(lc.layers)
    /\ DOMAIN assignments = 1 .. Len(lc.layers[layer_i].gates)
    /\ wires' = ApplyPrunes(MergeAssignments(wires, assignments, 1), lc.layers[layer_i].prunes)
    /\ layer_i' = layer_i + 1
    /\ assignments' = NoGateResults
    /\ UNCHANGED << cvars, epc, inputs, computed, outputs, eerr, ended >>

\* the read-out of the output labels after the last layer
EvalCollect ==
    /\ epc = "layers"
    /\ layer_i > Len(lc.layers)
    /\ \E r \in { CollectOutputs(lc.outputs, wires) } :
          /\ epc' = IF r.ok THEN "done" ELSE "panicked"
          /\ outputs' = r.outputs
          /\ eerr' = IF r.ok THEN NoError ELSE UnwrapNone
    /\ UNCHANGED << cvars, inputs, wires, layer_i, assignments, computed, ended >>

\* the call is over and its locals are dropped; the circuit can be evaluated again
EvalReturn ==
    /\ epc \in {"done", "panicked"}
    /\ epc' = "idle"
    /\ inputs' = NoAssignment
    /\ wires' = NoWires
    /\ layer_i' = 0
    /\ assignments' = NoGateResults
    /\ computed' = 0
    /\ outputs' = NoAssignment
    /\ eerr' = NoError
    /\ UNCHANGED << cvars, ended >>

Next ==
    \/ FromBristol
    \/ EvalBegin
    \/ EvalGate
    \/ EvalCommit
    \/ EvalCollect
    \/ EvalReturn

Spec == Init /\ [][Next]_vars

\* the same program with the outcome of the last call kept in `ended`
EvalReturnRecorded ==
    /\ epc \in {"done", "panicked"}
    /\ epc' = "idle"
    /\ inputs' = NoAssignment
    /\ wires' = NoWires
    /\ layer_i' = 0
    /\ assignments' = NoGateResults
    /\ computed' = 0
    /\ outputs' = NoAssignment
    /\ eerr' = NoError
    /\ ended' = IF epc = "done" THEN "returned" ELSE "panicked"
    /\ UNCHANGED cvars

ReuseNext ==
    \/ FromBristol
    \/ EvalBegin
    \/ EvalGate
    \/ EvalCommit
    \/ EvalCollect
    \/ EvalReturnRecorded

ReuseSpec == Init /\ [][ReuseNext]_vars

\* construction alone: from_bristol applied to each circuit
BuildNext == FromBristol

BuildSpec == Init /\ [][BuildNext]_vars

\* LayeredCircuit::from_bristol of the root copy
FromBristolRoot ==
    /\ pc = "new"
    /\ \E in_entries \in Iterations(bristol.input_name_to_wire_index) :
       \E out_entries \in Iterations(bristol.output_name_to_wire_index) :
       \E r \in { from_bristol_root(bristol, in_entries, out_entries) } :
          /\ pc' = IF r.ok THEN "built" ELSE "aborted"
          /\ lc' = r.lc
          /\ iters' = r.iters
          /\ IF r.err = "subtract with overflow"
             THEN err' \in { r.err, "All non-output wires should have been pruned" }
             ELSE err' = r.err
    /\ UNCHANGED << bristol, evars >>

\* construction by either copy of the scheduler
CopiesNext ==
    \/ FromBristol
    \/ FromBristolRoot

CopiesSpec == Init /\ [][CopiesNext]_vars

(***************************************************************************)
(* Vocabulary of the properties.                                           *)
(***************************************************************************)
Built == pc = "built"

\* the gates from_bristol handed to separate_layers, and the wire lists
SrcGates == ingest_bristol_gates(bristol.gates).gates

InputWires == io_wires(lc.inputs)

OutputWires == io_wires(lc.outputs)

LayerGates == Flatten([ k \in 1 .. Len(lc.layers) |-> lc.layers[k].gates ])

AllPrunes == Flatten([ k \in 1 .. Len(lc.layers) |-> lc.layers[k].prunes ])

NoDuplicates(s) == \A i, j \in 1 .. Len(s) : i # j => s[i] # s[j]

GateOuts == [ i \in 1 .. Len(SrcGates) |-> SrcGates[i].out ]

\* the gates of `gates` whose output gate i reads
DependsOn(gates, i) ==
    { j \in 1 .. Len(gates) : gates[j].out \in Range(GateInputs(gates[i])) }

\* the gates that can be put in dependency order after the gates of `done`
RECURSIVE Orderable(_, _)
Orderable(gates, done) ==
    LET more == { i \in 1 .. Len(gates) : DependsOn(gates, i) \subseteq done }
    IN  IF more \subseteq done THEN done ELSE Orderable(gates, done \cup more)

\* gate outputs pairwise distinct, every operand a primary input or the output
\* of another gate, no dependency cycle
SingleAssignmentDag(gates, input_wires) ==
    /\ \A i, j \in 1 .. Len(gates) : i # j => gates[i].out # gates[j].out
    /\ \A i \in 1 .. Len(gates) : \A w \in Range(GateInputs(gates[i])) :
          \/ w \in Range(input_wires)
          \/ \E j \in 1 .. Len(gates) : j # i /\ gates[j].out = w
    /\ Orderable(gates, {}) = 1 .. Len(gates)

\* the preconditions the scheduler states
StatedPreconditions == SingleAssignmentDag(SrcGates, InputWires)

\* no two input bits share a wire and no gate writes a primary input wire
NoRedrivenInput(gates, input_wires) ==
    /\ NoDuplicates(input_wires)
    /\ \A i \in 1 .. Len(gates) : gates[i].out \notin Range(input_wires)

\* every wire has one driver
DrivenOnce == NoRedrivenInput(SrcGates, InputWires)

WellFormed == StatedPreconditions /\ DrivenOnce

(***************************************************************************)
(* C1: for an acyclic single-assignment gate list whose operands are all   *)
(* primary inputs or outputs of other gates, the returned layers contain   *)
(* every gate of the source list exactly once.                             *)
(***************************************************************************)
EachGateOnce(layer_gates, gates) ==
    /\ Len(layer_gates) = Len(gates)
    /\ \A i \in 1 .. Len(gates) : Count(layer_gates, gates[i]) = 1

C1_Completeness == (Built /\ StatedPreconditions) => EachGateOnce(LayerGates, SrcGates)

C1_Witness ==
    /\ Built
    /\ StatedPreconditions
    /\ Len(lc.layers) = 2
    /\ \E i \in 1 .. Len(SrcGates) : SrcGates[i].kind = "Binary"

(***************************************************************************)
(* C2: in the returned layers every operand wire of every gate of layer k  *)
(* is a primary input wire or the output wire of a gate of a layer j < k.  *)
(***************************************************************************)
ResolvedEarlier(layers, input_wires) ==
    \A k \in 1 .. Len(layers) : \A g \in Range(layers[k].gates) :
        \A w \in Range(GateInputs(g)) :
            \/ w \in Range(input_wires)
            \/ \E j \in 1 .. k - 1 : \E h \in Range(layers[j].gates) : GateOut(h) = w

OperandsResolvedEarlier == ResolvedEarlier(lc.layers, InputWires)

\* the claim as stated, under the preconditions the scheduler states
C2_TopologicalValidity_AsStated == (Built /\ StatedPreconditions) => OperandsResolvedEarlier

\* C2 as amended: every wire being driven once as well (no two input bits on
\* one wire, no gate writing a primary input wire)
C2_TopologicalValidity == (Built /\ WellFormed) => OperandsResolvedEarlier

C2_Witness ==
    /\ Built
    /\ WellFormed
    /\ Len(lc.layers) = 2
    /\ \E g \in Range(lc.layers[2].gates) :
          /\ g.kind = "Binary"
          /\ g.a \in Range(InputWires)
          /\ g.b \notin Range(InputWires)

(***************************************************************************)
(* C3: for any two gates g1, g2 of one layer (g1 = g2 included) the output *)
(* wire of g1 is not among the operand wires of g2.                        *)
(***************************************************************************)
GatesOfLayerIndependent ==
    \A k \in 1 .. Len(lc.layers) :
        \A g1 \in Range(lc.layers[k].gates), g2 \in Range(lc.layers[k].gates) :
            GateOut(g1) \notin Range(GateInputs(g2))

\* the claim as stated, under the preconditions the scheduler states
C3_LayerIndependence_AsStated == (Built /\ StatedPreconditions) => GatesOfLayerIndependent

\* C3 as amended: every wire being driven once as well (no gate writing a
\* primary input wire, no two input bits on one wire)
C3_LayerIndependence == (Built /\ WellFormed) => GatesOfLayerIndependent

C3_Witness ==
    /\ Built
    /\ WellFormed
    /\ \E k \in 1 .. Len(lc.layers) :
          /\ Len(lc.layers[k].gates) = 2
          /\ \E w \in WireIds : \A g \in Range(lc.layers[k].gates) : w \in Range(GateInputs(g))

(***************************************************************************)
(* C4: over the prune lists of all returned layers together no wire occurs *)
(* more than once, for every gate list that meets the stated               *)
(* preconditions, a binary gate being free to name one wire as both        *)
(* operands.                                                               *)
(***************************************************************************)
C4_NoWireFreedTwice == (Built /\ WellFormed) => NoDuplicates(AllPrunes)

(***************************************************************************)
(* C5: no declared output wire appears in the prune list of any layer,     *)
(* whether it is read by no gate, one gate or many, a gate output or a     *)
(* primary input.                                                          *)
(***************************************************************************)
C5_OutputsNeverPruned == Built => Range(AllPrunes) \cap Range(OutputWires) = {}

\* an output wire that is a primary input, read by two gates
C5_Witness ==
    /\ Built
    /\ WellFormed
    /\ \E w \in Range(OutputWires) \cap Range(InputWires) :
          Cardinality({ i \in 1 .. Len(SrcGates) : w \in Range(GateInputs(SrcGates[i])) }) = 2

(***************************************************************************)
(* C6: whenever from_bristol returns, every wire of [0, wire_count) that   *)
(* is not a declared output wire is in the prune list of some layer.       *)
(***************************************************************************)
OutputsDriven == Range(OutputWires) \subseteq Range(InputWires) \cup Range(GateOuts)

C6_EveryNonOutputPruned ==
    (Built /\ WellFormed /\ OutputsDriven) =>
        \A w \in 0 .. lc.wire_count - 1 :
            w \notin Range(OutputWires) => w \in Range(AllPrunes)

(***************************************************************************)
(* C7: for every constructed circuit and every input assignment of the     *)
(* declared widths, eval returns for each output label the values a        *)
(* reference interpreter obtains by evaluating the source gates one by one *)
(* in dependency order.                                                    *)
(***************************************************************************)
\* the reference interpreter: the first gate of the list not yet evaluated
\* whose operands have values and whose producers are all evaluated is
\* evaluated next
RECURSIVE Reference(_, _, _)
Reference(gates, table, done) ==
    LET ready == { i \in (1 .. Len(gates)) \ done :
                     /\ Range(GateInputs(gates[i])) \subseteq DOMAIN table
                     /\ DependsOn(gates, i) \ {i} \subseteq done }
    IN  IF ready = {} THEN table
        ELSE LET i == CHOOSE m \in ready : \A n \in ready : m <= n
                 g == gates[i]
                 v == CASE g.op = "Not" -> ~table[g.in_]
                        [] g.op = "Copy" -> table[g.in_]
                        [] g.op = "And" -> table[g.a] /\ table[g.b]
                        [] g.op = "Or" -> table[g.a] \/ table[g.b]
                        [] g.op = "Xor" -> (table[g.a] /\ ~table[g.b]) \/ (~table[g.a] /\ table[g.b])
             IN  Reference(gates,
                           [ w \in DOMAIN table \cup {g.out} |-> IF w = g.out THEN v ELSE table[w] ],
                           done \cup {i})

\* the value the assignment gives wire w
InputBit(w) ==
    LET k == CHOOSE j \in 1 .. Len(lc.inputs) :
                 /\ lc.inputs[j].start <= w /\ w < lc.inputs[j].start + lc.inputs[j].bits
                 /\ \A j2 \in 1 .. Len(lc.inputs) :
                       (lc.inputs[j2].start <= w /\ w < lc.inputs[j2].start + lc.inputs[j2].bits)
                           => j2 <= j
    IN  inputs[lc.inputs[k].name][w - lc.inputs[k].start + 1]

ReferenceTable == Reference(SrcGates, [ w \in Range(InputWires) |-> InputBit(w) ], {})

OutputsAgree(table) ==
    \A k \in 1 .. Len(lc.outputs) :
        /\ lc.outputs[k].name \in DOMAIN outputs
        /\ Len(outputs[lc.outputs[k].name]) = lc.outputs[k].bits
        /\ \A i \in 1 .. lc.outputs[k].bits :
              /\ lc.outputs[k].start + i - 1 \in DOMAIN table
              /\ outputs[lc.outputs[k].name][i] = table[lc.outputs[k].start + i - 1]

AgreesWithReference == OutputsAgree(ReferenceTable)

\* the claim as stated, for every circuit from_bristol returns
C7_EvalCorrect_AsStated == (Built /\ epc = "done") => AgreesWithReference

\* C7 as amended: for the circuits built from a gate list that meets the
\* preconditions, every wire being driven once
C7_EvalCorrect == (Built /\ epc = "done" /\ WellFormed) => AgreesWithReference

\* two layers, every operator of a binary gate in use, an output that is TRUE
C7_Witness ==
    /\ Built
    /\ WellFormed
    /\ epc = "done"
    /\ Len(lc.layers) = 2
    /\ \E g \in Range(lc.layers[2].gates) : g.op = "Xor"
    /\ \E n \in DOMAIN outputs : outputs[n] = << TRUE >>

(***************************************************************************)
(* C8: an entry for a declared input whose number of values differs from   *)
(* the bit width makes eval fail with the input-length-mismatch error that *)
(* names that input; no gate is evaluated, nothing is truncated or padded. *)
(***************************************************************************)
Called == Built /\ epc # "idle"

Missing(k) == lc.inputs[k].name \notin DOMAIN inputs

MisSized(k) ==
    /\ lc.inputs[k].name \in DOMAIN inputs
    /\ Len(inputs[lc.inputs[k].name]) # lc.inputs[k].bits

FailedBeforeAnyGate ==
    /\ epc = "panicked"
    /\ computed = 0
    /\ layer_i = 0
    /\ outputs = NoAssignment

\* the claim as stated, for the calls that have an entry for every declared
\* input of a circuit whose input labels do not overlap
C8_MisSizedInput_AsStated ==
    (Called /\ WellFormed /\ \A j \in 1 .. Len(lc.inputs) : ~Missing(j)) => \A k \in 1 .. Len(lc.inputs) :
                 MisSized(k) => /\ FailedBeforeAnyGate
                                /\ eerr = LengthMismatch(lc.inputs[k].name)

\* C8 as amended: the call fails before any gate is evaluated, and the error is
\* the length mismatch naming that input when every label declared before it
\* has an entry of its width
C8_MisSizedInput ==
    Called => \A k \in 1 .. Len(lc.inputs) :
                 MisSized(k) =>
                     /\ FailedBeforeAnyGate
                     /\ (\A j \in 1 .. k - 1 : ~Missing(j) /\ ~MisSized(j))
                            => eerr = LengthMismatch(lc.inputs[k].name)

\* the second of two labels is mis-sized, in a circuit that has gates
C8_Witness ==
    /\ Called
    /\ WellFormed
    /\ Len(lc.inputs) = 2
    /\ Len(lc.layers) > 0
    /\ ~Missing(1) /\ ~MisSized(1)
    /\ MisSized(2)
    /\ Len(inputs[lc.inputs[2].name]) > lc.inputs[2].bits

(***************************************************************************)
(* C9: an input assignment without an entry for a declared input makes     *)
(* eval fail with an error that names the offending input, before any gate *)
(* computation.                                                            *)
(***************************************************************************)
C9_MissingInput ==
    (Called /\ WellFormed) => \A k \in 1 .. Len(lc.inputs) :
                 (Missing(k) /\ \A j \in 1 .. k - 1 : ~Missing(j) /\ ~MisSized(j)) =>
                     /\ FailedBeforeAnyGate
                     /\ eerr.name = lc.inputs[k].name

(***************************************************************************)
(* C10: from_bristol returns a LayeredCircuit only if the constants list   *)
(* is empty, every operator is one of AND, OR, XOR, NOT, COPY, the names   *)
(* and widths agree in number for inputs and for outputs, and both checks  *)
(* after layering pass; in every other case it aborts and returns nothing. *)
(***************************************************************************)
Accepted ==
    /\ bristol.constants = << >>
    /\ \A i \in 1 .. Len(bristol.gates) : bristol.gates[i].op \in {"AND", "OR", "XOR", "NOT", "COPY"}
    /\ Cardinality(DOMAIN bristol.input_name_to_wire_index) = Len(bristol.io_widths[1])
    /\ Cardinality(DOMAIN bristol.output_name_to_wire_index) = Len(bristol.io_widths[2])
    /\ Len(LayerGates) = Len(bristol.gates)
    /\ Len(AllPrunes) + Len(OutputWires) = bristol.wire_count

C10_AllOrNothing ==
    /\ Built => (Accepted /\ err = "" /\ lc.wire_count = bristol.wire_count)
    /\ pc = "aborted" => (lc = NoCircuit /\ err # "" /\ epc = "idle")

\* an abort for each cause
C10_Witness ==
    /\ pc = "aborted"
    /\ err = "Unsupported gate operation"
    /\ bristol.constants = << >>
    /\ Len(bristol.gates) = 2
    /\ bristol.gates[1].op = "AND"

(***************************************************************************)
(* C11: no step of an eval call changes the circuit (wire_count, inputs,   *)
(* outputs, layers with their gates and prunes), whether the call returns  *)
(* or aborts, and a call that follows an ended call returns the outputs    *)
(* eval gives on the circuit from_bristol built.                           *)
(***************************************************************************)
ScheduleKept == pc = "built" => lc' = lc

LaterCallAsFirst ==
    (Built /\ ended # "none" /\ epc = "done") => outputs = eval(lc, inputs).outputs

C11_EvalKeepsSchedule == [][ScheduleKept]_vars /\ []LaterCallAsFirst

\* a call that returns TRUE on a two-layer circuit after a call that aborted
C11_Witness ==
    /\ Built
    /\ WellFormed
    /\ ended = "panicked"
    /\ epc = "done"
    /\ Len(lc.layers) = 2
    /\ \E n \in DOMAIN outputs : outputs[n] = << TRUE >>

(***************************************************************************)
(* C12: for a name map with n names and a width list of length n the       *)
(* labels are the n names with their start indices, in ascending order of  *)
(* start index, the i-th label carrying the i-th width; io_wires lists the *)
(* wires start .. start + width - 1 of the labels, label by label.         *)
(***************************************************************************)
\* the position of the first wire of label i in the wire list
RECURSIVE WireOffset(_, _)
WireOffset(labels, i) ==
    IF i = 1 THEN 0 ELSE WireOffset(labels, i - 1) + labels[i - 1].bits

LabelsResolved(labels, name_to_index, widths) ==
    /\ Len(labels) = Cardinality(DOMAIN name_to_index)
    /\ Len(labels) = Len(widths)
    /\ { labels[i].name : i \in 1 .. Len(labels) } = DOMAIN name_to_index
    /\ \A i \in 1 .. Len(labels) :
          /\ labels[i].start = name_to_index[labels[i].name]
          /\ labels[i].bits = widths[i]
    /\ \A i, j \in 1 .. Len(labels) : i < j => labels[i].start <= labels[j].start

WiresListed(labels, listed) ==
    /\ Len(listed) = WireOffset(labels, Len(labels) + 1)
    /\ \A i \in 1 .. Len(labels) : \A k \in 0 .. labels[i].bits - 1 :
          listed[WireOffset(labels, i) + k + 1] = labels[i].start + k

C12_LabelResolution ==
    Built =>
        /\ LabelsResolved(lc.inputs, bristol.input_name_to_wire_index, bristol.io_widths[1])
        /\ LabelsResolved(lc.outputs, bristol.output_name_to_wire_index, bristol.io_widths[2])
        /\ WiresListed(lc.inputs, InputWires)
        /\ WiresListed(lc.outputs, OutputWires)

\* two input labels whose order by start index is not their order by name, the
\* second two bits wide
C12_Witness ==
    /\ Built
    /\ Len(lc.inputs) = 2
    /\ lc.inputs[1].name = "y"
    /\ lc.inputs[1].start < lc.inputs[2].start
    /\ lc.inputs[1].bits = 1
    /\ lc.inputs[2].bits = 2
    /\ Len(lc.layers) = 1

(***************************************************************************)
(* C13: a wire in the prune list of layer k is read by a gate of layer k   *)
(* and by no gate of a later layer: it is pruned in the layer of the last  *)
(* scheduled gate that reads it, not earlier and not later.                *)
(***************************************************************************)
ReadIn(layers, k, w) == \E g \in Range(layers[k].gates) : w \in Range(GateInputs(g))

PrunedWithLastReader(layers) ==
    \A k \in 1 .. Len(layers) : \A w \in Range(layers[k].prunes) :
        /\ ReadIn(layers, k, w)
        /\ \A j \in k + 1 .. Len(layers) : ~ReadIn(layers, j, w)

C13_PruneTiming == Built => PrunedWithLastReader(lc.layers)

\* a wire read in layer 1 and in layer 2 and pruned in layer 2
C13_Witness ==
    /\ Built
    /\ WellFormed
    /\ Len(lc.layers) = 2
    /\ \E w \in Range(lc.layers[2].prunes) : ReadIn(lc.layers, 1, w)

(***************************************************************************)
(* C14: in a call whose inputs passed validation every operand lookup of   *)
(* every gate and every output-wire lookup of the read-out finds a value   *)
(* in the wire table: the call does not abort after validation.            *)
(***************************************************************************)
\* the unwrap of a lookup that found nothing, after the seeding loop
MissingWireValue == epc = "panicked" /\ layer_i >= 1

\* the claim as stated, for every circuit from_bristol returns
C14_NoMissingWire_AsStated == Built => ~MissingWireValue

\* C14 as amended: for the circuits built from a gate list that meets the
\* preconditions, every wire driven once and every declared output wire a
\* primary input or the output of a gate
C14_NoMissingWire == (Built /\ epc = "panicked" /\ WellFormed /\ OutputsDriven) => layer_i = 0

\* a call that returned after a first layer with prunes and a second layer
C14_Witness ==
    /\ Built
    /\ epc = "done"
    /\ WellFormed
    /\ OutputsDriven
    /\ Len(lc.layers) = 2
    /\ lc.layers[1].prunes # << >>
    /\ \E g \in Range(lc.layers[2].gates) : g.kind = "Binary"

(***************************************************************************)
(* C15: while the gates of a layer are computed, in any order, the wire    *)
(* table is the one committed by the layers before it, every result so far *)
(* was computed from that table, and the returned outputs are those of the *)
(* layers evaluated one after the other: no interleaving changes them.     *)
(***************************************************************************)
\* the table committed by the first k layers
TableAfter(circuit, input_assignment, k) ==
    EvalLayers(SubSeq(circuit.layers, 1, k),
               SeedInputs(circuit.inputs, input_assignment, NoWires, 1).wires, 1).wires

ComputedFrom(layer, table, results) ==
    /\ DOMAIN results \subseteq 1 .. Len(layer.gates)
    /\ \A g \in DOMAIN results : results[g] = GateAssignment(layer.gates[g], table)

C15_LayerBarrier ==
    /\ (Built /\ epc = "layers") =>
          /\ wires = TableAfter(lc, inputs, layer_i - 1)
          /\ IF layer_i <= Len(lc.layers)
             THEN ComputedFrom(lc.layers[layer_i], wires, assignments)
             ELSE assignments = NoGateResults
    /\ (Built /\ epc = "done") => outputs = eval(lc, inputs).outputs

\* the second gate of a two-gate layer has finished before the first, with an
\* input bit that is TRUE
C15_Witness ==
    /\ Built
    /\ WellFormed
    /\ epc = "layers"
    /\ layer_i = 1
    /\ layer_i <= Len(lc.layers)
    /\ Len(lc.layers[layer_i].gates) = 2
    /\ DOMAIN assignments = {2}
    /\ \E w \in DOMAIN wires : wires[w]

(***************************************************************************)
(* C16: no returned layer has an empty gate list; a circuit with no gates  *)
(* yields no layers, whatever its primary input wires.                     *)
(***************************************************************************)
NoEmptyLayer(layers) == \A k \in 1 .. Len(layers) : layers[k].gates # << >>

\* for the gate lists that meet the preconditions, every wire driven once
C16_NoEmptyLayers == (Built /\ WellFormed /\ OutputsDriven) => NoEmptyLayer(lc.layers)

(***************************************************************************)
(* C17: the scheduling loop makes at most (number of gates + 1)            *)
(* iterations, and for a gate list with a dependency cycle or with an      *)
(* operand that is neither a primary input nor the output of another gate  *)
(* separate_layers fails with "Not all gates included".                    *)
(***************************************************************************)
\* from_bristol got as far as separate_layers
SchedulerRan ==
    /\ pc # "new"
    /\ err \notin { "Bristol constants are not supported",
                    "Mismatch between input count and input widths",
                    "Unsupported gate operation", "index out of bounds" }

\* the input wires from_bristol passes on: the labels of the sorted name map
SrcInputWires ==
    io_wires(io_labels(CHOOSE e \in Iterations(bristol.input_name_to_wire_index) : TRUE,
                       bristol.io_widths[1]).labels)

HasUndrivenOperand(gates, input_wires) ==
    \E i \in 1 .. Len(gates) : \E w \in Range(GateInputs(gates[i])) :
        /\ w \notin Range(input_wires)
        /\ \A j \in 1 .. Len(gates) : j # i => gates[j].out # w

HasCycle(gates) == Orderable(gates, {}) # 1 .. Len(gates)

Malformed(gates, input_wires) == HasUndrivenOperand(gates, input_wires) \/ HasCycle(gates)

\* every wire has at most one driver
SingleDriver(gates, input_wires) ==
    /\ \A i, j \in 1 .. Len(gates) : i # j => gates[i].out # gates[j].out
    /\ NoRedrivenInput(gates, input_wires)

\* the claim as stated, for every gate list
C17_Termination_AsStated ==
    SchedulerRan =>
        /\ iters <= Len(SrcGates) + 1
        /\ Malformed(SrcGates, SrcInputWires) => (pc = "aborted" /\ err = "Not all gates included")

\* C17 as amended: the failure is certain when every wire has at most one driver
C17_Termination ==
    SchedulerRan =>
        /\ iters <= Len(SrcGates) + 1
        /\ (Malformed(SrcGates, SrcInputWires) /\ SingleDriver(SrcGates, SrcInputWires))
              => (pc = "aborted" /\ err = "Not all gates included")

\* two gates that wait for each other, one of them after its first operand
C17_Witness ==
    /\ pc = "aborted"
    /\ err = "Not all gates included"
    /\ Len(SrcGates) = 2
    /\ HasCycle(SrcGates)
    /\ ~HasUndrivenOperand(SrcGates, SrcInputWires)
    /\ SingleDriver(SrcGates, SrcInputWires)
    /\ \E i \in 1 .. 2 : SrcGates[i].kind = "Binary" /\ SrcGates[i].a \in Range(SrcInputWires)

(***************************************************************************)
(* C18: with the primary input wires at level 0 and the output wire of a   *)
(* gate at the level of the gate's layer, every gate of layer k has all    *)
(* its operands at levels below k and one of them at level k - 1: no gate  *)
(* is placed later than its operands allow.                                *)
(***************************************************************************)
WireLevels(layers, input_wires, w) ==
    (IF w \in Range(input_wires) THEN {0} ELSE {})
    \cup { j \in 1 .. Len(layers) : \E h \in Range(layers[j].gates) : GateOut(h) = w }

PlacedAsSoonAsPossible(layers, input_wires) ==
    \A k \in 1 .. Len(layers) : \A g \in Range(layers[k].gates) :
        /\ \A w \in Range(GateInputs(g)) :
              /\ WireLevels(layers, input_wires, w) # {}
              /\ \A l \in WireLevels(layers, input_wires, w) : l < k
        /\ \E w \in Range(GateInputs(g)) : k - 1 \in WireLevels(layers, input_wires, w)

\* the claim as stated, under the preconditions the scheduler states
C18_AsSoonAsPossible_AsStated ==
    (Built /\ StatedPreconditions) => PlacedAsSoonAsPossible(lc.layers, InputWires)

\* C18 as amended: for the gate lists that meet the preconditions, every wire
\* driven once
C18_AsSoonAsPossible == (Built /\ WellFormed) => PlacedAsSoonAsPossible(lc.layers, InputWires)

\* a unary gate in layer 2 behind a binary gate in layer 1
C18_Witness ==
    /\ Built
    /\ WellFormed
    /\ Len(lc.layers) = 2
    /\ \E g \in Range(lc.layers[1].gates) : g.kind = "Binary" /\ g.a # g.b
    /\ \E g \in Range(lc.layers[2].gates) : g.kind = "Unary"

(***************************************************************************)
(* C19: with pairwise distinct start indices in each name map, every run   *)
(* of from_bristol on the circuit gives the result of the run made: the    *)
(* same labels, the same layers with the same gate and prune sequences, or *)
(* the same failure, whatever the order the hash maps are iterated in.     *)
(***************************************************************************)
DistinctStarts(name_to_index) ==
    \A n1, n2 \in DOMAIN name_to_index : n1 # n2 => name_to_index[n1] # name_to_index[n2]

SameRun(r) ==
    /\ r.ok = (pc = "built")
    /\ r.lc = lc
    /\ r.iters = iters
    /\ r.err = err \/ (r.err = "subtract with overflow" /\ err = "All non-output wires should have been pruned")

SameForEveryOrder ==
    \A in_entries \in Iterations(bristol.input_name_to_wire_index) :
    \A out_entries \in Iterations(bristol.output_name_to_wire_index) :
    \A r \in { from_bristol(bristol, in_entries, out_entries) } : SameRun(r)

C19_Determinism ==
    (/\ pc # "new"
     /\ DistinctStarts(bristol.input_name_to_wire_index)
     /\ DistinctStarts(bristol.output_name_to_wire_index)) => SameForEveryOrder

\* two input labels and two output labels, in two layers
C19_Witness ==
    /\ Built
    /\ Len(lc.inputs) = 2
    /\ Len(lc.outputs) = 2
    /\ lc.inputs[1].start # lc.inputs[2].start
    /\ lc.outputs[1].start # lc.outputs[2].start
    /\ Len(lc.layers) = 2

(***************************************************************************)
(* C20: after layer k is merged and pruned the wire table holds exactly    *)
(* the wires resolved so far (primary inputs, outputs of the gates of the  *)
(* layers up to k) that are declared outputs or are read by a gate of a    *)
(* later layer; after the last layer, exactly the declared output wires.   *)
(***************************************************************************)
ResolvedBy(layers, input_wires, k) ==
    Range(input_wires) \cup { GateOut(g) : g \in UNION { Range(layers[j].gates) : j \in 1 .. k } }

LiveAfter(layers, input_wires, output_wires, k) ==
    { w \in ResolvedBy(layers, input_wires, k) :
        \/ w \in Range(output_wires)
        \/ \E j \in k + 1 .. Len(layers) : ReadIn(layers, j, w) }

\* every wire of the circuit is below its wire_count
WiresInRange ==
    Range(InputWires) \cup Range(GateOuts) \cup Range(OutputWires) \subseteq 0 .. (lc.wire_count - 1)

\* for the gate lists that meet the preconditions, every wire driven once and
\* every output wire driven, in a call whose inputs passed validation
C20_LiveSet ==
    (Built /\ epc = "layers" /\ layer_i >= 2 /\ WellFormed /\ OutputsDriven /\ WiresInRange) =>
        DOMAIN wires = LiveAfter(lc.layers, InputWires, OutputWires, layer_i - 1)

(***************************************************************************)
(* C21: the two copies of the scheduler agree.  For every gate list, wire  *)
(* count, input wires and output wires, separate_layers of                 *)
(* src/src/layered_circuit.rs and separate_layers of                       *)
(* src/frontend/src/layered_circuit.rs both fail or both return, and when  *)
(* they return they yield the same sequence of layers, with the same gates *)
(* and prunes in each layer.                                               *)
(***************************************************************************)
\* the output wires from_bristol passes on
SrcOutputWires ==
    io_wires(io_labels(CHOOSE e \in Iterations(bristol.output_name_to_wire_index) : TRUE,
                       bristol.io_widths[2]).labels)

\* what each copy makes of the arguments from_bristol passed on
FrontendSchedule ==
    separate_layers(SrcGates, bristol.wire_count, SrcInputWires, SrcOutputWires)

RootSchedule ==
    separate_layers_root(SrcGates, bristol.wire_count, SrcInputWires, SrcOutputWires)

C21_CopiesAgree ==
    SchedulerRan =>
        /\ FrontendSchedule.ok = RootSchedule.ok
        /\ FrontendSchedule.err = RootSchedule.err
        /\ FrontendSchedule.ok => FrontendSchedule.layers = RootSchedule.layers

============================================================================
